---- MODULE Spec2Model ----
(***************************************************************************)
(* Model of app/database/connection.py: the thread-safe MySQL connection   *)
(* pool (ConnectionPool) with bounded overflow, age/liveness recycling, a  *)
(* circuit breaker and metrics.  Each thread runs get_connection() scopes; *)
(* the steps of a scope are split where another thread can interleave      *)
(* (queue operations, lock acquisitions, driver calls).                    *)
(***************************************************************************)
EXTENDS Integers, Sequences, FiniteSets, TLC

\* ---------------------------------------------------------------- bounds
Threads == {"t1", "t2", "t3"}
MaxOps == 3     \* get_connection() calls started in one behaviour
MaxTime == 1    \* clock ticks in one behaviour

\* as many get_connection() calls, in all, as there are client threads
OnePerThread(threads) == Cardinality(threads)

\* The pools that are constructed: the ConnectionPoolConfig handed to
\* ConnectionPool.__init__, the threads that use the pool, and whether the
\* clock advances while they do.
\*   "sequential": one thread, pool of 2 + 1 overflow, retries, threshold 2
\*   "breaker":    two threads, pool of 1 + 1 overflow, threshold 1, one call
\*                 fewer
\*   "overload":   three threads, pool of 1 + 1 overflow, within one instant,
\*                 three calls
\*   "trial":      two threads, pool of 1 without overflow, threshold 1, so
\*                 that a call can arrive while a recovery trial is under way
Scenarios ==
    { [config |-> [pool_size |-> 2, max_overflow |-> 1, pool_recycle |-> 0,
                   max_retry_attempts |-> 2, circuit_failure_threshold |-> 2,
                   circuit_timeout |-> 0],
       clients |-> {"t1"}, ticking |-> TRUE, calls |-> MaxOps],
      [config |-> [pool_size |-> 1, max_overflow |-> 1, pool_recycle |-> 0,
                   max_retry_attempts |-> 1, circuit_failure_threshold |-> 1,
                   circuit_timeout |-> 0],
       clients |-> {"t1", "t2"}, ticking |-> TRUE, calls |-> MaxOps - 1],
      [config |-> [pool_size |-> 1, max_overflow |-> 1, pool_recycle |-> 0,
                   max_retry_attempts |-> 1, circuit_failure_threshold |-> 2,
                   circuit_timeout |-> 0],
       clients |-> {"t1", "t2", "t3"}, ticking |-> FALSE,
       calls |-> OnePerThread({"t1", "t2", "t3"})],
      [config |-> [pool_size |-> 1, max_overflow |-> 0, pool_recycle |-> 1,
                   max_retry_attempts |-> 1, circuit_failure_threshold |-> 1,
                   circuit_timeout |-> 0],
       clients |-> {"t1", "t2"}, ticking |-> TRUE, calls |-> MaxOps] }

\* The pools on which termination is examined:
\*   "starved":  three threads on a pool of 1 with no overflow, so that one
\*               waits on the idle queue and another on the overflow lock
\*   "faulty":   two threads, pool of 1 + 1 overflow, retries, threshold 1,
\*               two calls
FairScenarios ==
    { [config |-> [pool_size |-> 1, max_overflow |-> 0, pool_recycle |-> 0,
                   max_retry_attempts |-> 1, circuit_failure_threshold |-> 2,
                   circuit_timeout |-> 0],
       clients |-> {"t1", "t2", "t3"}, ticking |-> FALSE,
       calls |-> OnePerThread({"t1", "t2", "t3"})],
      [config |-> [pool_size |-> 1, max_overflow |-> 1, pool_recycle |-> 0,
                   max_retry_attempts |-> 2, circuit_failure_threshold |-> 1,
                   circuit_timeout |-> 0],
       clients |-> {"t1", "t2"}, ticking |-> TRUE,
       calls |-> OnePerThread({"t1", "t2"})] }

\* connection objects are numbered in creation order
NoConnection == 0
ConnIds == 1..(3 + MaxOps)

\* ------------------------------------------------------------- vocabulary
CLOSED == "closed"
OPEN == "open"
HALF_OPEN == "half-open"

NoTime == -1
NoThread == "none"
None == "None"
ThePool == "ConnectionPool"   \* the one ConnectionPool object of a behaviour
Outcomes == {"ok", "err", "lost"}

VARIABLES
    config,                 \* the ConnectionPoolConfig the pool was built from
    clients,                \* the threads that call get_connection()
    ticking,                \* whether time passes while they do
    calls,                  \* how many get_connection() calls they make in all
    global_pool,            \* the module-level singleton _pool (None or ThePool)
    pool,                   \* self._pool: FIFO queue of idle connections
    overflow_count,         \* self._overflow_count
    overflow_lock,          \* holder of self._overflow_lock, or NoThread
    connection_timestamps,  \* self._connection_timestamps (NoTime = no entry)
    metrics,                \* self.metrics counters and gauges
    circuit_state,          \* self.metrics.circuit_state
    circuit_failures,       \* self.metrics.circuit_failures
    circuit_opened_at,      \* self.metrics.circuit_opened_at (NoTime = None)
    connStatus,             \* driver-side state of each connection object
    nextId,                 \* identity of the next connection object created
    overflow_created,       \* history: the live connections made by the overflow branch
    now,                    \* the wall clock (time.time / datetime.now)
    ops,                    \* number of get_connection() calls started
    th,                     \* per thread: position in get_connection and locals
    metrics_lock,           \* holder of self._metrics_lock, or NoThread
    circuit_breaker_lock,   \* holder of self._circuit_breaker_lock, or NoThread
    lk                      \* per thread: position in the pool's locking

vars == <<config, clients, ticking, calls, global_pool, pool, overflow_count, overflow_lock,
          connection_timestamps, metrics, circuit_state, circuit_failures,
          circuit_opened_at, connStatus, nextId, overflow_created, now, ops, th,
          metrics_lock, circuit_breaker_lock, lk>>

\* ------------------------------------------------ configuration (tunables)
pool_size == config.pool_size
max_overflow == config.max_overflow
pool_recycle == config.pool_recycle
max_retry_attempts == config.max_retry_attempts
circuit_failure_threshold == config.circuit_failure_threshold
circuit_timeout == config.circuit_timeout

\* what stays as it is while clients use the pool
lockVars == <<metrics_lock, circuit_breaker_lock, lk>>
setup == <<config, clients, ticking, calls, global_pool, lockVars>>
circuitVars == <<circuit_state, circuit_failures, circuit_opened_at>>
poolVars == <<pool, overflow_count, overflow_lock, connection_timestamps,
              connStatus, nextId, overflow_created>>

\* ConnectionMetrics() followed by the pool_size creations of _initialise_pool
ConnectionMetrics ==
    [total_connections_created |-> pool_size,
     total_connections_closed |-> 0,
     total_checkouts |-> 0,
     total_checkins |-> 0,
     total_errors |-> 0,
     total_retries |-> 0,
     active_connections |-> 0,
     idle_connections |-> pool_size,
     overflow_connections |-> 0,
     avg_checkout_time_ms |-> <<0, 1>>,   \* a fraction <<numerator, denominator>>
     max_checkout_time_ms |-> 0,
     last_health_check |-> NoTime,
     health_check_failures |-> 0]

\* no health report
NoReport == [status |-> "none", failures |-> 0, available_connections |-> 0]

\* locals of a get_connection() call that has not started
ThreadInit ==
    [pc |-> "idle", connection |-> NoConnection, attempt |-> 0,
     path |-> "none", exc |-> "none", raised |-> "none",
     rolledback |-> FALSE, errs |-> 0, unusable |-> FALSE, lockwait |-> FALSE,
     sleeps |-> <<>>, returned |-> "none", report |-> NoReport, counted |-> 0,
     checkout_time_ms |-> 0, recorded |-> <<>>]

\* ConnectionPool.__init__ after a successful _initialise_pool
\* nobody holds _metrics_lock or _circuit_breaker_lock or is on its way to them
LocksFree ==
    /\ metrics_lock = NoThread
    /\ circuit_breaker_lock = NoThread
    /\ lk = [t \in Threads |-> [stage |-> "idle", todo |-> <<>>]]

InitFrom(scenarios) ==
    /\ \E s \in scenarios :
         /\ config = s.config /\ clients = s.clients
         /\ ticking = s.ticking /\ calls = s.calls
    /\ global_pool = ThePool
    /\ pool = [i \in 1..pool_size |-> i]
    /\ overflow_count = 0
    /\ overflow_lock = NoThread
    /\ connection_timestamps = [c \in ConnIds |-> IF c <= pool_size THEN 0 ELSE NoTime]
    /\ metrics = ConnectionMetrics
    /\ circuit_state = CLOSED
    /\ circuit_failures = 0
    /\ circuit_opened_at = NoTime
    /\ connStatus = [c \in ConnIds |-> IF c <= pool_size THEN "open" ELSE "none"]
    /\ nextId = pool_size + 1
    /\ overflow_created = {}
    /\ now = 0
    /\ ops = 0
    /\ th = [t \in Threads |-> ThreadInit]
    /\ LocksFree

Init == InitFrom(Scenarios)

\* ------------------------------------------------------------ pure helpers

\* _is_connection_stale: no timestamp, or older than pool_recycle
IsConnectionStale(c) ==
    \/ connection_timestamps[c] = NoTime
    \/ now - connection_timestamps[c] > pool_recycle

\* Connection.open of the driver: the socket is still there
IsOpen(c) == connStatus[c] = "open"

\* the connection would be recycled by the check of _get_connection:
\* stale, or its socket is gone so that ping(reconnect=False) fails
IsUnusable(c) == IsConnectionStale(c) \/ ~IsOpen(c)

\* variant: the head is read but stays in the queue
DequeuePeek(q) == q

\* Queue.get: the head leaves the queue
Dequeue(q) == Tail(q)

\* variant: no overflow limit
CanOverflowNoLimit == TRUE

\* variant: the limit is tested with <= instead of <
CanOverflowOffByOne == overflow_count <= max_overflow

\* the overflow admission test of _get_connection
CanOverflow == overflow_count < max_overflow

\* variant: the overflow branch creates its connection without counting it
OverflowTakenNotCounted == overflow_count

\* self._overflow_count += 1 of the overflow branch
OverflowTaken == overflow_count + 1

\* Queue.put(block=False) succeeds unless the queue holds maxsize items
QueueHasRoom == Len(pool) < pool_size

\* elapsed > self._circuit_timeout in _check_circuit
CircuitTimedOut == now - circuit_opened_at > circuit_timeout

\* the state of a driver connection after a call with the given outcome
AfterCall(c, outcome) ==
    IF outcome = "lost" THEN [connStatus EXCEPT ![c] = "lost"] ELSE connStatus

\* the metrics block of the finally clause of get_connection
FinallyMetrics(m) ==
    [m EXCEPT !.active_connections = @ - 1,
              !.total_checkins = @ + 1,
              !.idle_connections = @ + 1]

\* the metrics block after a successful _get_connection
CheckoutMetrics(m) ==
    [m EXCEPT !.total_checkouts = @ + 1,
              !.active_connections = @ + 1,
              !.idle_connections = @ - 1]

\* the default of _calculate_backoff_delay's base_delay (0.5 s), in milliseconds
base_delay == 500

AddErrors(m, n) == [m EXCEPT !.total_errors = @ + n]

\* ----------------------------------------------------- circuit breaker

\* variant: the circuit opens one failure late, only past the threshold
RecordCircuitFailureOpensLate ==
    /\ circuit_failures' = circuit_failures + 1
    /\ IF circuit_failures + 1 > circuit_failure_threshold /\ circuit_state # OPEN
       THEN /\ circuit_state' = OPEN
            /\ circuit_opened_at' = now
       ELSE UNCHANGED <<circuit_state, circuit_opened_at>>

\* variant: a failure in HALF_OPEN re-opens the circuit under its old stamp
RecordCircuitFailureKeepStamp ==
    /\ circuit_failures' = circuit_failures + 1
    /\ IF circuit_failures + 1 >= circuit_failure_threshold /\ circuit_state # OPEN
       THEN /\ circuit_state' = OPEN
            /\ circuit_opened_at' = IF circuit_state = HALF_OPEN /\ circuit_opened_at # NoTime
                                    THEN circuit_opened_at ELSE now
       ELSE UNCHANGED <<circuit_state, circuit_opened_at>>

\* variant: the circuit is re-opened and re-stamped on every failure past the threshold
RecordCircuitFailureRestamp ==
    /\ circuit_failures' = circuit_failures + 1
    /\ IF circuit_failures + 1 >= circuit_failure_threshold
       THEN /\ circuit_state' = OPEN
            /\ circuit_opened_at' = now
       ELSE UNCHANGED <<circuit_state, circuit_opened_at>>

\* _record_circuit_failure
RecordCircuitFailure ==
    /\ circuit_failures' = circuit_failures + 1
    /\ IF circuit_failures + 1 >= circuit_failure_threshold /\ circuit_state # OPEN
       THEN /\ circuit_state' = OPEN
            /\ circuit_opened_at' = now
       ELSE UNCHANGED <<circuit_state, circuit_opened_at>>

\* variant: the failure counter survives the reset
ResetCircuitKeepFailures ==
    IF circuit_state # CLOSED
    THEN /\ circuit_state' = CLOSED
         /\ circuit_opened_at' = NoTime
         /\ UNCHANGED circuit_failures
    ELSE UNCHANGED circuitVars

\* _reset_circuit
ResetCircuit ==
    IF circuit_state # CLOSED
    THEN /\ circuit_state' = CLOSED
         /\ circuit_failures' = 0
         /\ circuit_opened_at' = NoTime
    ELSE UNCHANGED circuitVars

\* elapsed in _check_circuit: seconds since the circuit opened
Elapsed == now - circuit_opened_at

\* the f-string built in _check_circuit: a text that ends with the remaining
\* seconds formatted by :.0f
OpenCircuitMessage ==
    [type |-> "str",
     value |-> <<"Circuit breaker is open. Database appears to be down. Retry in",
                 circuit_timeout - Elapsed, "s">>]

\* CircuitBreakerException.__init__: a truthy retry_after is stored as given
CircuitBreakerException(retry_after) == [extras |-> [retry_after |-> retry_after]]

\* raise CircuitBreakerException(f"..."): the text is the first positional
\* argument, which is the parameter retry_after
RaisedByCheckCircuit == CircuitBreakerException(OpenCircuitMessage)

\* variant: _check_circuit runs inside the try block, so the rejection is
\* counted by the except and finally clauses of get_connection
CheckCircuitRejectsInsideTry(t) ==
    /\ th[t].pc = "idle"
    /\ t \in clients
    /\ ops < calls
    /\ circuit_state = OPEN
    /\ ~CircuitTimedOut
    /\ ops' = ops + 1
    /\ metrics' = FinallyMetrics(AddErrors(metrics, 1))
    /\ th' = [th EXCEPT ![t] = ThreadInit]
    /\ UNCHANGED <<poolVars, circuitVars, now, setup>>

\* get_connection up to and including _check_circuit: the call is rejected
CheckCircuitRejects(t) ==
    /\ th[t].pc = "idle"
    /\ t \in clients
    /\ ops < calls
    /\ circuit_state = OPEN
    /\ ~CircuitTimedOut
    /\ ops' = ops + 1
    /\ th' = [th EXCEPT ![t] = ThreadInit]
    /\ UNCHANGED <<poolVars, metrics, circuitVars, now, setup>>

\* variant: the move to HALF_OPEN forgets when the circuit opened
CheckCircuitAdmitsForgetsStamp(t) ==
    /\ th[t].pc = "idle"
    /\ t \in clients
    /\ ops < calls
    /\ circuit_state = OPEN => CircuitTimedOut
    /\ circuit_state' = IF circuit_state = OPEN THEN HALF_OPEN ELSE circuit_state
    /\ circuit_opened_at' = IF circuit_state = OPEN THEN NoTime ELSE circuit_opened_at
    /\ ops' = ops + 1
    /\ th' = [th EXCEPT ![t] = [ThreadInit EXCEPT !.pc = "get"]]
    /\ UNCHANGED <<poolVars, metrics, circuit_failures, now, setup>>

\* get_connection up to and including _check_circuit: the call is admitted
CheckCircuitAdmits(t) ==
    /\ th[t].pc = "idle"
    /\ t \in clients
    /\ ops < calls
    /\ circuit_state = OPEN => CircuitTimedOut
    /\ circuit_state' = IF circuit_state = OPEN THEN HALF_OPEN ELSE circuit_state
    /\ ops' = ops + 1
    /\ th' = [th EXCEPT ![t] = [ThreadInit EXCEPT !.pc = "get"]]
    /\ UNCHANGED <<poolVars, metrics, circuit_failures, circuit_opened_at, now, setup>>

\* ------------------------------------------------------------ acquisition

\* _get_connection: pool.get(block=False) returned a usable connection
GetFromPool(t) ==
    /\ th[t].pc = "get"
    /\ pool # <<>>
    /\ LET c == Head(pool) IN
       /\ \E ping \in BOOLEAN :
            /\ ~IsConnectionStale(c)
            /\ IsOpen(c) /\ ping
       /\ pool' = Dequeue(pool)
       /\ metrics' = CheckoutMetrics(metrics)
       /\ th' = [th EXCEPT ![t].pc = "work", ![t].connection = c,
                           ![t].path = "queue", ![t].unusable = IsUnusable(c)]
    /\ UNCHANGED <<overflow_count, overflow_lock, connection_timestamps, connStatus,
                   nextId, overflow_created, circuitVars, now, ops, setup>>

\* _get_connection: the dequeued connection is stale or dead and is closed
RecycleConnection(t) ==
    /\ th[t].pc = "get"
    /\ pool # <<>>
    /\ LET c == Head(pool) IN
       /\ \E ping \in BOOLEAN :
            IsConnectionStale(c) \/ ~(IsOpen(c) /\ ping)
       /\ pool' = Dequeue(pool)
       /\ connStatus' = [connStatus EXCEPT ![c] = "closed"]
       /\ metrics' = [metrics EXCEPT !.total_connections_closed = @ + 1]
       /\ connection_timestamps' = [connection_timestamps EXCEPT ![c] = NoTime]
       /\ th' = [th EXCEPT ![t].pc = "create", ![t].path = "recycle", ![t].attempt = 0]
    /\ overflow_created' = overflow_created \ {Head(pool)}
    /\ UNCHANGED <<overflow_count, overflow_lock, nextId, circuitVars, now, ops, setup>>

\* _get_connection: pool.get(block=False) raised Empty and the thread reaches
\* "with self._overflow_lock", where it blocks if another thread holds the lock
PoolEmpty(t) ==
    /\ th[t].pc = "get"
    /\ pool = <<>>
    /\ th' = [th EXCEPT ![t].pc = "overflow",
                        ![t].lockwait = (overflow_lock # NoThread)]
    /\ UNCHANGED <<poolVars, metrics, circuitVars, now, ops, setup>>

\* except Empty: with self._overflow_lock, overflow capacity is available
TakeOverflowSlot(t) ==
    /\ th[t].pc = "overflow"
    /\ overflow_lock = NoThread
    /\ CanOverflow
    /\ overflow_lock' = t
    /\ overflow_count' = OverflowTaken
    /\ metrics' = [metrics EXCEPT !.overflow_connections = OverflowTaken]
    /\ th' = [th EXCEPT ![t].pc = "create", ![t].path = "overflow", ![t].attempt = 0]
    /\ UNCHANGED <<pool, connection_timestamps, connStatus, nextId, overflow_created, circuitVars, now, ops, setup>>

\* except Empty: with self._overflow_lock, the overflow limit is reached
StartBoundedWait(t) ==
    /\ th[t].pc = "overflow"
    /\ overflow_lock = NoThread
    /\ ~CanOverflow
    /\ overflow_lock' = t
    /\ th' = [th EXCEPT ![t].pc = "wait", ![t].path = "wait"]
    /\ UNCHANGED <<pool, overflow_count, connection_timestamps, connStatus, nextId, overflow_created,
                   metrics, circuitVars, now, ops, setup>>

\* pool.get(block=True, timeout=10) obtained a connection
BoundedWaitGets(t) ==
    /\ th[t].pc = "wait"
    /\ pool # <<>>
    /\ LET c == Head(pool) IN
       /\ pool' = Dequeue(pool)
       /\ metrics' = CheckoutMetrics(metrics)
       /\ th' = [th EXCEPT ![t].pc = "work", ![t].connection = c,
                           ![t].unusable = IsUnusable(c), ![t].lockwait = FALSE]
    /\ overflow_lock' = NoThread
    /\ UNCHANGED <<overflow_count, connection_timestamps, connStatus, nextId, overflow_created,
                   circuitVars, now, ops, setup>>

\* variant: pool.get(block=True) without a timeout never raises Empty
BoundedWaitNoTimeout(t) ==
    /\ th[t].pc = "wait"
    /\ FALSE
    /\ UNCHANGED vars

\* pool.get(block=True, timeout=10) raised Empty; get_connection's except and finally
BoundedWaitTimesOut(t) ==
    /\ th[t].pc = "wait"
    /\ pool = <<>>
    /\ overflow_lock' = NoThread
    /\ metrics' = FinallyMetrics(AddErrors(metrics, 1))
    /\ th' = [th EXCEPT ![t] = ThreadInit]
    /\ UNCHANGED <<pool, overflow_count, connection_timestamps, connStatus, nextId, overflow_created,
                   circuitVars, now, ops, setup>>

\* ------------------------------------------------------ connection factory

ReleaseOverflowLock(t) == IF th[t].path = "overflow" THEN NoThread ELSE overflow_lock

\* variant: the loop runs one attempt too many
LastAttemptOneMore(t) == th[t].attempt = max_retry_attempts

\* variant: the delay is that of the attempt to come
CalculateBackoffDelayNextAttempt(attempt) == base_delay * 2^(attempt + 1)

\* _calculate_backoff_delay, in milliseconds
CalculateBackoffDelay(attempt) == base_delay * 2^attempt

\* the attempt in progress is the last of range(self.max_retry_attempts)
LastAttempt(t) == th[t].attempt = max_retry_attempts - 1

\* _create_connection_with_retry: an attempt succeeds
CreateSucceeds(t) ==
    /\ th[t].pc = "create"
    /\ LET c == nextId IN
       /\ connStatus' = [connStatus EXCEPT ![c] = "open"]
       /\ connection_timestamps' = [connection_timestamps EXCEPT ![c] = now]
       /\ nextId' = nextId + 1
       /\ overflow_created' = IF th[t].path = "overflow"
                              THEN overflow_created \cup {c} ELSE overflow_created
       /\ metrics' = CheckoutMetrics(
             [metrics EXCEPT !.total_connections_created = @ + 1,
                             !.idle_connections = @ + 1,
                             !.total_retries = @ + th[t].attempt])
       /\ th' = [th EXCEPT ![t].pc = "work", ![t].connection = c,
                           ![t].attempt = 0, ![t].lockwait = FALSE,
                           ![t].sleeps = <<>>]
    /\ overflow_lock' = ReleaseOverflowLock(t)
    /\ UNCHANGED <<pool, overflow_count, circuitVars, now, ops, setup>>

\* _create_connection_with_retry: an attempt fails and another one follows
CreateRetries(t) ==
    /\ th[t].pc = "create"
    /\ ~LastAttempt(t)
    /\ th' = [th EXCEPT ![t].attempt = @ + 1,
                        ![t].sleeps = Append(@, CalculateBackoffDelay(th[t].attempt))]
    /\ UNCHANGED <<poolVars, metrics, circuitVars, now, ops, setup>>

\* _create_connection_with_retry: the last attempt fails
CreateExhausted(t) ==
    /\ th[t].pc = "create"
    /\ LastAttempt(t)
    /\ metrics' = AddErrors(metrics, 1)
    /\ RecordCircuitFailure
    /\ overflow_lock' = ReleaseOverflowLock(t)
    /\ th' = [th EXCEPT ![t].pc = "fail", ![t].exc = "create_error", ![t].errs = @ + 1]
    /\ UNCHANGED <<pool, overflow_count, connection_timestamps, connStatus, nextId, overflow_created,
                   now, ops, setup>>

\* the creation error leaves _get_connection and get_connection
PropagateCreateError(t) ==
    /\ th[t].pc = "fail"
    /\ LET n == IF th[t].path = "recycle" THEN 2 ELSE 1 IN
       /\ metrics' = FinallyMetrics(AddErrors(metrics, n))
       /\ th' = [th EXCEPT ![t] = ThreadInit]
    /\ UNCHANGED <<poolVars, circuitVars, now, ops, setup>>

\* ------------------------------------------------------------ unit of work

\* the caller's block ends normally, commit succeeds, _reset_circuit
WorkCommits(t) ==
    /\ th[t].pc = "work"
    /\ IsOpen(th[t].connection)
    /\ ResetCircuit
    /\ th' = [th EXCEPT ![t].pc = "release", ![t].path = "none",
                        ![t].unusable = FALSE]
    /\ UNCHANGED <<poolVars, metrics, now, ops, setup>>

\* except Exception in get_connection, entered after a driver call with
\* outcome o failed: connection.rollback() with outcome r, then total_errors
ExceptHandler(t, cause, o) ==
    LET c == th[t].connection
        afterO == AfterCall(c, o)
    IN \E r \in Outcomes :
         /\ r = "ok" => afterO[c] = "open"
         /\ r = "err" => afterO[c] = "open"
         /\ connStatus' = IF r = "lost" THEN [afterO EXCEPT ![c] = "lost"] ELSE afterO
         /\ IF r = "ok"
            THEN /\ metrics' = AddErrors(metrics, 1)
                 /\ th' = [th EXCEPT ![t].pc = "release", ![t].path = "none",
                                     ![t].raised = cause,
                                     ![t].exc = cause, ![t].rolledback = TRUE,
                                     ![t].errs = @ + 1, ![t].unusable = FALSE]
            ELSE /\ metrics' = metrics
                 /\ th' = [th EXCEPT ![t].pc = "release", ![t].path = "none",
                                     ![t].raised = cause,
                                     ![t].exc = "rollback_error",
                                     ![t].unusable = FALSE]

\* the caller's block raises
WorkRaises(t) ==
    /\ th[t].pc = "work"
    /\ \E o \in Outcomes \ {"ok"} : ExceptHandler(t, "work_error", o)
    /\ UNCHANGED <<pool, overflow_count, overflow_lock, connection_timestamps,
                   nextId, overflow_created, circuitVars, now, ops, setup>>

\* the caller's block ends normally and connection.commit() raises
CommitRaises(t) ==
    /\ th[t].pc = "work"
    /\ \E o \in Outcomes \ {"ok"} :
         /\ o = "err" => IsOpen(th[t].connection)
         /\ ExceptHandler(t, "commit_error", o)
    /\ UNCHANGED <<pool, overflow_count, overflow_lock, connection_timestamps,
                   nextId, overflow_created, circuitVars, now, ops, setup>>

\* ---------------------------------------------------------------- release

\* _return_connection: pool.put(block=False) succeeds; finally block of get_connection
ReturnToPool(t) ==
    /\ th[t].pc = "release"
    /\ QueueHasRoom
    /\ pool' = Append(pool, th[t].connection)
    /\ metrics' = FinallyMetrics(metrics)
    /\ th' = [th EXCEPT ![t] = ThreadInit]
    /\ UNCHANGED <<overflow_count, overflow_lock, connection_timestamps, connStatus,
                   nextId, overflow_created, circuitVars, now, ops, setup>>

\* _return_connection: pool.put(block=False) raises Full
ReturnFindsFull(t) ==
    /\ th[t].pc = "release"
    /\ ~QueueHasRoom
    /\ th' = [th EXCEPT ![t].pc = "full"]
    /\ UNCHANGED <<poolVars, metrics, circuitVars, now, ops, setup>>

\* _return_connection: the defensive rollback raises; the error leaves get_connection
ReturnRollbackRaises(t) ==
    /\ th[t].pc = "release"
    /\ IsOpen(th[t].connection)
    /\ \E o \in Outcomes \ {"ok"} :
         connStatus' = AfterCall(th[t].connection, o)
    /\ metrics' = AddErrors(metrics, 1)
    /\ th' = [th EXCEPT ![t] = ThreadInit]
    /\ UNCHANGED <<pool, overflow_count, overflow_lock, connection_timestamps,
                   nextId, overflow_created, circuitVars, now, ops, setup>>

\* except Full: the overflow connection is closed; finally block of get_connection
CloseOverflow(t) ==
    /\ th[t].pc = "full"
    /\ overflow_lock = NoThread
    /\ overflow_count' = overflow_count - 1
    /\ connStatus' = [connStatus EXCEPT ![th[t].connection] = "closed"]
    /\ connection_timestamps' = [connection_timestamps EXCEPT ![th[t].connection] = NoTime]
    /\ metrics' = FinallyMetrics(
          [metrics EXCEPT !.overflow_connections = overflow_count - 1,
                          !.total_connections_closed = @ + 1,
                          !.idle_connections = @ - 1])
    /\ th' = [th EXCEPT ![t] = ThreadInit]
    /\ overflow_created' = overflow_created \ {th[t].connection}
    /\ UNCHANGED <<pool, overflow_lock, nextId, circuitVars, now, ops, setup>>

\* ------------------------------------------------------------------ clock

Tick ==
    /\ ticking
    /\ now < MaxTime
    /\ now' = now + 1
    /\ UNCHANGED <<poolVars, metrics, circuitVars, ops, th, setup>>

Next ==
    \/ Tick
    \/ \E t \in Threads :
         \/ CheckCircuitRejects(t)
         \/ CheckCircuitAdmits(t)
         \/ GetFromPool(t)
         \/ RecycleConnection(t)
         \/ PoolEmpty(t)
         \/ TakeOverflowSlot(t)
         \/ StartBoundedWait(t)
         \/ BoundedWaitGets(t)
         \/ BoundedWaitTimesOut(t)
         \/ CreateSucceeds(t)
         \/ CreateRetries(t)
         \/ CreateExhausted(t)
         \/ PropagateCreateError(t)
         \/ WorkCommits(t)
         \/ WorkRaises(t)
         \/ CommitRaises(t)
         \/ ReturnToPool(t)
         \/ ReturnFindsFull(t)
         \/ ReturnRollbackRaises(t)
         \/ CloseOverflow(t)

Spec == Init /\ [][Next]_vars

\* the steps of a call in progress that need nothing but the thread being
\* scheduled: queue operations, connection attempts (each ends, by
\* connect_timeout), the caller's block, and the bounded wait (ends by timeout)
Running(t) ==
    \/ GetFromPool(t)
    \/ RecycleConnection(t)
    \/ PoolEmpty(t)
    \/ BoundedWaitGets(t)
    \/ BoundedWaitTimesOut(t)
    \/ CreateSucceeds(t)
    \/ CreateRetries(t)
    \/ CreateExhausted(t)
    \/ PropagateCreateError(t)
    \/ WorkCommits(t)
    \/ WorkRaises(t)
    \/ CommitRaises(t)
    \/ ReturnToPool(t)
    \/ ReturnFindsFull(t)
    \/ ReturnRollbackRaises(t)

\* the steps that acquire self._overflow_lock
Locking(t) ==
    \/ TakeOverflowSlot(t)
    \/ StartBoundedWait(t)
    \/ CloseOverflow(t)

\* fair scheduling: a thread that can take a step of its call, and stays able
\* to, takes it; whether a client starts another call is left open
FairSpec ==
    /\ InitFrom(FairScenarios)
    /\ [][Next]_vars
    /\ \A t \in Threads : WF_vars(Running(t) \/ Locking(t))


\* ------------------------------------------- construction and module level

MaxPoolSize == 2    \* largest pool_size a pool is constructed with
MaxAttempts == 3    \* largest max_retry_attempts a pool is constructed with

\* the configurations init_connection_pool is called with
ModuleConfigs ==
    { [pool_size |-> p, max_overflow |-> 1, pool_recycle |-> 0,
       max_retry_attempts |-> a, circuit_failure_threshold |-> f,
       circuit_timeout |-> 0] :
        p \in 1..MaxPoolSize, a \in 1..MaxAttempts, f \in {1, 2} }

\* ConnectionMetrics(): every field at its default
NewMetrics ==
    [ConnectionMetrics EXCEPT !.total_connections_created = 0,
                              !.idle_connections = 0]

\* ConnectionPool.__init__ up to the call of _initialise_pool
NewPool ==
    /\ pool' = <<>>
    /\ overflow_count' = 0
    /\ overflow_lock' = NoThread
    /\ connection_timestamps' = [c \in ConnIds |-> NoTime]
    /\ metrics' = NewMetrics
    /\ circuit_state' = CLOSED
    /\ circuit_failures' = 0
    /\ circuit_opened_at' = NoTime
    /\ connStatus' = [c \in ConnIds |-> "none"]
    /\ nextId' = 1
    /\ overflow_created' = {}

\* the module after import: _pool is None and no ConnectionPool exists
ModuleInit ==
    /\ config \in ModuleConfigs
    /\ clients = {"t1", "t2"}
    /\ ticking = TRUE
    /\ calls = MaxOps
    /\ global_pool = None
    /\ pool = <<>>
    /\ overflow_count = 0
    /\ overflow_lock = NoThread
    /\ connection_timestamps = [c \in ConnIds |-> NoTime]
    /\ metrics = NewMetrics
    /\ circuit_state = CLOSED
    /\ circuit_failures = 0
    /\ circuit_opened_at = NoTime
    /\ connStatus = [c \in ConnIds |-> "none"]
    /\ nextId = 1
    /\ overflow_created = {}
    /\ now = 0
    /\ ops = 0
    /\ th = [t \in Threads |-> ThreadInit]
    /\ LocksFree

\* a thread may start a module-level call
MayCall(t) == th[t].pc = "idle" /\ t \in clients /\ ops < calls

\* nobody is inside ConnectionPool.__init__ (the application starts up once)
NotConstructing == \A u \in Threads : th[u].pc # "init"

\* init_connection_pool: _pool is None, ConnectionPool(...) is being constructed
InitConnectionPool(t) ==
    /\ MayCall(t)
    /\ NotConstructing
    /\ global_pool = None
    /\ NewPool
    /\ ops' = ops + 1
    /\ th' = [th EXCEPT ![t] = [ThreadInit EXCEPT !.pc = "init"]]
    /\ UNCHANGED <<now, setup>>

\* init_connection_pool: the pool exists already and is returned
InitConnectionPoolAgain(t) ==
    /\ MayCall(t)
    /\ NotConstructing
    /\ global_pool # None
    /\ ops' = ops + 1
    /\ th' = [th EXCEPT ![t] = [ThreadInit EXCEPT !.returned = global_pool]]
    /\ UNCHANGED <<poolVars, metrics, circuitVars, now, setup>>

\* the iteration of _initialise_pool that just put a connection was the last
PoolFilled == Len(pool') = pool_size

\* _initialise_pool: _create_connection_with_retry succeeds and the connection
\* is put; after the last iteration __init__ returns and _pool is assigned
InitCreateSucceeds(t) ==
    /\ th[t].pc = "init"
    /\ LET c == nextId IN
       /\ connStatus' = [connStatus EXCEPT ![c] = "open"]
       /\ connection_timestamps' = [connection_timestamps EXCEPT ![c] = now]
       /\ nextId' = nextId + 1
       /\ metrics' = [metrics EXCEPT !.total_connections_created = @ + 1,
                                     !.idle_connections = @ + 1,
                                     !.total_retries = @ + th[t].attempt]
       /\ pool' = Append(pool, c)
    /\ global_pool' = IF PoolFilled THEN ThePool ELSE global_pool
    /\ th' = [th EXCEPT ![t].pc = IF PoolFilled THEN "idle" ELSE "init",
                        ![t].returned = IF PoolFilled THEN ThePool ELSE @,
                        ![t].attempt = 0, ![t].sleeps = <<>>]
    /\ UNCHANGED <<overflow_count, overflow_lock, overflow_created, circuitVars,
                   now, ops, config, clients, ticking, calls, lockVars>>

\* _initialise_pool: an attempt fails and another one follows
InitCreateRetries(t) ==
    /\ th[t].pc = "init"
    /\ ~LastAttempt(t)
    /\ th' = [th EXCEPT ![t].attempt = @ + 1,
                        ![t].sleeps = Append(@, CalculateBackoffDelay(th[t].attempt))]
    /\ UNCHANGED <<poolVars, metrics, circuitVars, now, ops, setup>>

\* variant: _initialise_pool logs the error and goes on to the next iteration
InitCreateExhaustedSwallowed(t) ==
    /\ th[t].pc = "init"
    /\ LastAttempt(t)
    /\ metrics' = AddErrors(metrics, 2)
    /\ RecordCircuitFailure
    /\ pool' = Append(pool, NoConnection)
    /\ global_pool' = IF PoolFilled THEN ThePool ELSE global_pool
    /\ th' = [th EXCEPT ![t].pc = IF PoolFilled THEN "idle" ELSE "init",
                        ![t].returned = IF PoolFilled THEN ThePool ELSE @,
                        ![t].attempt = 0, ![t].sleeps = <<>>]
    /\ UNCHANGED <<overflow_count, overflow_lock, connection_timestamps, connStatus,
                   nextId, overflow_created, now, ops, config, clients, ticking, calls, lockVars>>

\* _initialise_pool: the last attempt fails; the error is counted, re-raised
\* and leaves __init__ and init_connection_pool, so _pool is not assigned
InitCreateExhausted(t) ==
    /\ th[t].pc = "init"
    /\ LastAttempt(t)
    /\ metrics' = AddErrors(metrics, 2)
    /\ RecordCircuitFailure
    /\ th' = [th EXCEPT ![t].pc = "idle", ![t].raised = "create_error",
                        ![t].exc = "create_error"]
    /\ UNCHANGED <<poolVars, now, ops, setup>>

\* the name `pool` that get_pool tests: the module imported at line 5
\* (from multiprocessing import pool), not the singleton _pool
imported_pool == "module multiprocessing.pool"

\* get_pool
GetPool(t) ==
    /\ MayCall(t)
    /\ ops' = ops + 1
    /\ th' = [th EXCEPT ![t] =
                [ThreadInit EXCEPT
                   !.raised = IF imported_pool = None THEN "RuntimeError" ELSE "none",
                   !.returned = IF imported_pool = None THEN "none" ELSE global_pool]]
    /\ UNCHANGED <<poolVars, metrics, circuitVars, now, setup>>

\* health_check: connect and SELECT 1 succeed; the metrics are updated and
\* snapshotted under _metrics_lock and the report is returned
HealthCheckSucceeds(t) ==
    /\ MayCall(t)
    /\ global_pool = ThePool
    /\ ops' = ops + 1
    /\ metrics' = [metrics EXCEPT !.last_health_check = now,
                                  !.health_check_failures = 0]
    /\ th' = [th EXCEPT ![t] =
                [ThreadInit EXCEPT
                   !.report = [status |-> "healthy", failures |-> 0,
                               available_connections |-> Len(pool)]]]
    /\ UNCHANGED <<poolVars, circuitVars, now, setup>>

\* variant: a failed health check counts against the circuit
HealthCheckFailsCountsFailure(t) ==
    /\ MayCall(t)
    /\ global_pool = ThePool
    /\ ops' = ops + 1
    /\ metrics' = [metrics EXCEPT !.health_check_failures = @ + 1]
    /\ RecordCircuitFailure
    /\ th' = [th EXCEPT ![t] = [ThreadInit EXCEPT !.pc = "unhealthy",
                                  !.counted = metrics.health_check_failures + 1]]
    /\ UNCHANGED <<poolVars, now, setup>>

\* health_check: connect or SELECT 1 raises; the except clause counts the
\* failure under _metrics_lock
HealthCheckFails(t) ==
    /\ MayCall(t)
    /\ global_pool = ThePool
    /\ ops' = ops + 1
    /\ metrics' = [metrics EXCEPT !.health_check_failures = @ + 1]
    /\ th' = [th EXCEPT ![t] = [ThreadInit EXCEPT !.pc = "unhealthy",
                                  !.counted = metrics.health_check_failures + 1]]
    /\ UNCHANGED <<poolVars, circuitVars, now, setup>>

\* health_check: the except clause builds its report, reading
\* self.metrics.health_check_failures after the lock was released
HealthCheckReports(t) ==
    /\ th[t].pc = "unhealthy"
    /\ th' = [th EXCEPT ![t].pc = "idle",
                        ![t].report = [status |-> "unhealthy",
                                       failures |-> metrics.health_check_failures,
                                       available_connections |-> Len(pool)]]
    /\ UNCHANGED <<poolVars, metrics, circuitVars, now, ops, setup>>

\* the loop of close_all_connections over the queue q: each connection taken
\* is closed and its timestamp popped
RECURSIVE Drain(_, _, _)
Drain(q, status, stamps) ==
    IF q = <<>>
    THEN [pool |-> q, connStatus |-> status, connection_timestamps |-> stamps]
    ELSE Drain(Tail(q), [status EXCEPT ![Head(q)] = "closed"],
               [stamps EXCEPT ![Head(q)] = NoTime])

\* variant: only the first idle connection is taken and closed
CloseOnlyFirst ==
    IF pool = <<>>
    THEN [pool |-> pool, connStatus |-> connStatus,
          connection_timestamps |-> connection_timestamps]
    ELSE [pool |-> Tail(pool),
          connStatus |-> [connStatus EXCEPT ![Head(pool)] = "closed"],
          connection_timestamps |-> [connection_timestamps EXCEPT ![Head(pool)] = NoTime]]

\* the pool after close_all_connections
Drained == Drain(pool, connStatus, connection_timestamps)

\* close_all_connections
CloseAllConnections ==
    /\ pool' = Drained.pool
    /\ connStatus' = Drained.connStatus
    /\ connection_timestamps' = Drained.connection_timestamps

\* close_connection_pool
CloseConnectionPool(t) ==
    /\ MayCall(t)
    /\ NotConstructing
    /\ ops' = ops + 1
    /\ IF global_pool # None
       THEN /\ CloseAllConnections
            /\ global_pool' = None
       ELSE UNCHANGED <<pool, connStatus, connection_timestamps, global_pool>>
    /\ th' = [th EXCEPT ![t] = ThreadInit]
    /\ UNCHANGED <<overflow_count, overflow_lock, nextId, overflow_created, metrics,
                   circuitVars, now, config, clients, ticking, calls, lockVars>>

ModuleNext ==
    \/ Tick
    \/ \E t \in Threads :
         \/ InitConnectionPool(t)
         \/ InitConnectionPoolAgain(t)
         \/ InitCreateSucceeds(t)
         \/ InitCreateRetries(t)
         \/ InitCreateExhausted(t)
         \/ GetPool(t)
         \/ HealthCheckSucceeds(t)
         \/ HealthCheckFails(t)
         \/ HealthCheckReports(t)
         \/ CloseConnectionPool(t)

\* the module from import to shutdown
ModuleSpec == ModuleInit /\ [][ModuleNext]_vars

\* ------------------------------------------------------ shutdown in use

\* close_all_connections called on the pool while clients use it; the loop
\* runs without a checkout or a return in between
Shutdown ==
    /\ CloseAllConnections
    /\ UNCHANGED <<overflow_count, overflow_lock, nextId, overflow_created, metrics,
                   circuitVars, now, ops, th, setup>>

ShutdownNext == Next \/ Shutdown

\* the pools that are shut down: those of FairScenarios and one that keeps
\* two connections idle while a single client uses it
ShutdownScenarios ==
    FairScenarios \cup
    { [config |-> [pool_size |-> 2, max_overflow |-> 0, pool_recycle |-> 0,
                   max_retry_attempts |-> 1, circuit_failure_threshold |-> 2,
                   circuit_timeout |-> 0],
       clients |-> {"t1"}, ticking |-> FALSE, calls |-> MaxOps - 1] }

\* a pool in use on which close_all_connections may be called at any moment
ShutdownSpec == InitFrom(ShutdownScenarios) /\ [][ShutdownNext]_vars

\* ------------------------------------------------- shutdown for good

\* close_connection_pool called while clients use the pool: callers reach the
\* pool through the module's _pool, so no get_connection() starts once it is
\* None; the calls in progress run to their end
ClosingNext ==
    \/ Tick
    \/ \E t \in Threads :
         \/ global_pool # None /\ CheckCircuitRejects(t)
         \/ global_pool # None /\ CheckCircuitAdmits(t)
         \/ Running(t)
         \/ Locking(t)
         \/ CloseConnectionPool(t)

\* a pool in use until close_connection_pool
ClosingSpec == InitFrom(FairScenarios) /\ [][ClosingNext]_vars

\* ------------------------------------------- failed recycling replacement

\* pools whose only trouble is the database refusing the replacement of a
\* stale or dead connection: a lone client of a pool with one overflow slot,
\* and two clients of a pool without and of a pool with an overflow slot
RecoveryScenarios ==
    { [config |-> [pool_size |-> 1, max_overflow |-> 1, pool_recycle |-> 0,
                   max_retry_attempts |-> 2, circuit_failure_threshold |-> 1,
                   circuit_timeout |-> 0],
       clients |-> {"t1"}, ticking |-> TRUE, calls |-> MaxOps],
      [config |-> [pool_size |-> 1, max_overflow |-> 0, pool_recycle |-> 0,
                   max_retry_attempts |-> 1, circuit_failure_threshold |-> 2,
                   circuit_timeout |-> 0],
       clients |-> {"t1", "t2"}, ticking |-> FALSE, calls |-> MaxOps],
      [config |-> [pool_size |-> 1, max_overflow |-> 1, pool_recycle |-> 0,
                   max_retry_attempts |-> 1, circuit_failure_threshold |-> 2,
                   circuit_timeout |-> 0],
       clients |-> {"t1", "t2"}, ticking |-> FALSE,
       calls |-> OnePerThread({"t1", "t2"})] }

\* get_connection where units of work commit and releases succeed; connection
\* attempts fail only for the replacement made in the recycling branch
RecoveryNext ==
    \/ Tick
    \/ \E t \in Threads :
         \/ CheckCircuitRejects(t)
         \/ CheckCircuitAdmits(t)
         \/ GetFromPool(t)
         \/ RecycleConnection(t)
         \/ PoolEmpty(t)
         \/ TakeOverflowSlot(t)
         \/ StartBoundedWait(t)
         \/ BoundedWaitGets(t)
         \/ BoundedWaitTimesOut(t)
         \/ CreateSucceeds(t)
         \/ th[t].path = "recycle" /\ CreateRetries(t)
         \/ th[t].path = "recycle" /\ CreateExhausted(t)
         \/ PropagateCreateError(t)
         \/ WorkCommits(t)
         \/ ReturnToPool(t)
         \/ ReturnFindsFull(t)
         \/ CloseOverflow(t)

RecoverySpec == InitFrom(RecoveryScenarios) /\ [][RecoveryNext]_vars

\* ------------------------------------------------ pool under monitoring

\* clients use the pool while health_check is called on it
MonitoredNext ==
    \/ Next
    \/ \E t \in Threads :
         \/ HealthCheckSucceeds(t)
         \/ HealthCheckFails(t)
         \/ HealthCheckReports(t)

MonitoredSpec == InitFrom(FairScenarios) /\ [][MonitoredNext]_vars

\* ------------------------------------------------------------- locking

\* the three locks of the pool; threading.Lock is not reentrant
OverflowLock == "_overflow_lock"
MetricsLock == "_metrics_lock"
CircuitBreakerLock == "_circuit_breaker_lock"

Acquire(l) == [op |-> "acquire", lock |-> l]
Release(l) == [op |-> "release", lock |-> l]

\* with lock: body
WithLock(l, body) == <<Acquire(l)>> \o body \o <<Release(l)>>

\* a 'with self._metrics_lock:' block; none of them calls into the pool
MetricsBlock == WithLock(MetricsLock, <<>>)

\* _check_circuit, _record_circuit_failure, _reset_circuit: each body runs
\* under _circuit_breaker_lock and touches no other lock
CircuitBlock == WithLock(CircuitBreakerLock, <<>>)

\* _create_connection_with_retry, the attempt succeeds: the metrics block,
\* and a second one (total_retries) when it was not the first attempt
CreatedLocks == {MetricsBlock, MetricsBlock \o MetricsBlock}

\* _create_connection_with_retry, all attempts failed: the metrics block
\* (total_errors), then _record_circuit_failure
ExhaustedLocks == MetricsBlock \o CircuitBlock

\* variant: the except Full branch takes the metrics lock first
ReturnFullLocksReversed ==
    WithLock(MetricsLock, WithLock(OverflowLock, <<>>)) \o MetricsBlock

\* _return_connection, except Full: the overflow counter and its gauge under
\* _overflow_lock then _metrics_lock, and the metrics block after close()
ReturnFullLocks == WithLock(OverflowLock, MetricsBlock) \o MetricsBlock

\* the locking of the pool as a flow graph: from a stage a thread goes on to
\* another stage after the lock operations of the code in between
LockFlow(stage) ==
    CASE stage = "idle" ->
           \* get_connection: _check_circuit admits or raises; health_check
           \* and get_metrics: one metrics block
           { [todo |-> CircuitBlock, stage |-> "get"],
             [todo |-> CircuitBlock, stage |-> "idle"],
             [todo |-> MetricsBlock, stage |-> "idle"] }
      [] stage = "get" ->
           \* _get_connection: a healthy connection from the queue
           { [todo |-> <<>>, stage |-> "checkout"] }
           \* a stale or dead one: metrics block, then the replacement; when
           \* that fails, the metrics block of except Exception
           \cup { [todo |-> MetricsBlock \o c, stage |-> "checkout"] : c \in CreatedLocks }
           \cup { [todo |-> MetricsBlock \o ExhaustedLocks \o MetricsBlock,
                   stage |-> "failed"] }
           \* except Empty, an overflow slot is free: the gauge and the whole
           \* creation under _overflow_lock
           \cup { [todo |-> WithLock(OverflowLock, MetricsBlock \o c),
                   stage |-> "checkout"] : c \in CreatedLocks }
           \cup { [todo |-> WithLock(OverflowLock, MetricsBlock \o ExhaustedLocks),
                   stage |-> "failed"] }
           \* except Empty, no slot: the bounded wait under _overflow_lock
           \cup { [todo |-> <<Acquire(OverflowLock)>>, stage |-> "wait"] }
      [] stage = "wait" ->
           \* pool.get(block=True, timeout=10) returns or raises Empty
           { [todo |-> <<Release(OverflowLock)>>, stage |-> "checkout"],
             [todo |-> <<Release(OverflowLock)>>, stage |-> "failed"] }
      [] stage = "failed" ->
           \* get_connection without a connection: except Exception, finally
           { [todo |-> MetricsBlock \o MetricsBlock, stage |-> "idle"] }
      [] stage = "checkout" ->
           \* get_connection: the metrics block before yield
           { [todo |-> MetricsBlock, stage |-> "work"] }
      [] stage = "work" ->
           \* commit and _reset_circuit; or except Exception: rollback and
           \* the metrics block, which a raising rollback skips
           { [todo |-> CircuitBlock, stage |-> "return"],
             [todo |-> MetricsBlock, stage |-> "return"],
             [todo |-> <<>>, stage |-> "return"] }
      [] stage = "return" ->
           \* _return_connection and finally: put succeeds (the metrics block
           \* of finally); the rollback raises (the metrics block of except
           \* Exception; the error skips that of finally); put raises Full
           { [todo |-> MetricsBlock, stage |-> "idle"],
             [todo |-> ReturnFullLocks \o MetricsBlock, stage |-> "idle"] }
      [] OTHER -> {}

\* who holds a lock
LockHolder(l) ==
    IF l = OverflowLock THEN overflow_lock
    ELSE IF l = MetricsLock THEN metrics_lock
    ELSE circuit_breaker_lock

\* the lock l passes to thread t (or to nobody)
SetLockHolder(l, t) ==
    /\ overflow_lock' = IF l = OverflowLock THEN t ELSE overflow_lock
    /\ metrics_lock' = IF l = MetricsLock THEN t ELSE metrics_lock
    /\ circuit_breaker_lock' = IF l = CircuitBreakerLock THEN t ELSE circuit_breaker_lock

LockUnchanged ==
    UNCHANGED <<pool, overflow_count, connection_timestamps, connStatus, nextId,
                overflow_created, metrics, circuitVars, now, ops, th,
                config, clients, ticking, calls, global_pool>>

\* the thread reaches the next lock operation of its code path
EnterCode(t) ==
    /\ lk[t].todo = <<>>
    /\ \E f \in LockFlow(lk[t].stage) : lk' = [lk EXCEPT ![t] = f]
    /\ UNCHANGED <<overflow_lock, metrics_lock, circuit_breaker_lock>>
    /\ LockUnchanged

\* lock.acquire(): returns once the lock is free
AcquireLock(t) ==
    /\ lk[t].todo # <<>>
    /\ Head(lk[t].todo).op = "acquire"
    /\ LockHolder(Head(lk[t].todo).lock) = NoThread
    /\ SetLockHolder(Head(lk[t].todo).lock, t)
    /\ lk' = [lk EXCEPT ![t].todo = Tail(@)]
    /\ LockUnchanged

\* lock.release() at the end of the with block
ReleaseLock(t) ==
    /\ lk[t].todo # <<>>
    /\ Head(lk[t].todo).op = "release"
    /\ SetLockHolder(Head(lk[t].todo).lock, NoThread)
    /\ lk' = [lk EXCEPT ![t].todo = Tail(@)]
    /\ LockUnchanged

LockNext ==
    \E t \in clients :
        \/ EnterCode(t)
        \/ AcquireLock(t)
        \/ ReleaseLock(t)

\* the threads of a pool seen through its locks only
LockSpec == InitFrom(FairScenarios) /\ [][LockNext]_vars

\* ------------------------------------------------------ checkout latency

MaxLatency == 2    \* largest checkout latency, in milliseconds

\* the pool whose checkout latencies are recorded
LatencyScenarios ==
    { [config |-> [pool_size |-> 2, max_overflow |-> 0, pool_recycle |-> 0,
                   max_retry_attempts |-> 1, circuit_failure_threshold |-> 2,
                   circuit_timeout |-> 0],
       clients |-> {"t1", "t2"}, ticking |-> FALSE, calls |-> MaxOps] }

\* variant: the previous average is weighted by n instead of n - 1
RunningAverageMisweighted(avg, n, ms) == <<avg[1] * n + ms * avg[2], avg[2] * n>>

\* (avg * (n - 1) + checkout_time_ms) / n on fractions <<numerator, denominator>>
RunningAverage(avg, n, ms) == <<avg[1] * (n - 1) + ms * avg[2], avg[2] * n>>

\* max(a, b)
Max(a, b) == IF a >= b THEN a ELSE b

\* the metrics block after a successful _get_connection, timing included
TimedCheckoutMetrics(m, ms) ==
    LET n == m.total_checkouts + 1 IN
    [CheckoutMetrics(m) EXCEPT
        !.avg_checkout_time_ms = RunningAverage(m.avg_checkout_time_ms, n, ms),
        !.max_checkout_time_ms = Max(m.max_checkout_time_ms, ms)]

\* get_connection: _get_connection has returned and checkout_time_ms is computed
MeasureCheckout(t) ==
    /\ MayCall(t)
    /\ ops' = ops + 1
    /\ \E ms \in 0..MaxLatency :
         th' = [th EXCEPT ![t].pc = "measured", ![t].checkout_time_ms = ms]
    /\ UNCHANGED <<poolVars, metrics, circuitVars, now, setup>>

\* get_connection: the usage metrics are updated under _metrics_lock
RecordCheckout(t) ==
    /\ th[t].pc = "measured"
    /\ metrics' = TimedCheckoutMetrics(metrics, th[t].checkout_time_ms)
    /\ th' = [th EXCEPT ![t].pc = "idle",
                        ![t].recorded = Append(@, th[t].checkout_time_ms)]
    /\ UNCHANGED <<poolVars, circuitVars, now, ops, setup>>

LatencyNext == \E t \in Threads : MeasureCheckout(t) \/ RecordCheckout(t)

\* the timing statistics over the acquisitions of concurrent callers
LatencySpec == InitFrom(LatencyScenarios) /\ [][LatencyNext]_vars

\* ------------------------------------------------------------------ claims

Held == {t \in Threads : th[t].connection # NoConnection}
InPool(c) == \E i \in 1..Len(pool) : pool[i] = c
LiveConnections == Len(pool) + Cardinality(Held)
AllIdle == \A t \in Threads : th[t].pc = "idle"

\* the step taken is the start of a get_connection() call
CallStarts == ops' = ops + 1
\* the step taken is thread t leaving its unit of work with a successful commit
CommitStep(t) ==
    th[t].pc = "work" /\ th'[t].pc = "release" /\ th'[t].raised = "none"
\* the step taken is thread t leaving get_connection() after holding a connection
ExitStep(t) == th[t].pc \in {"release", "full"} /\ th'[t].pc = "idle"

C2_OverflowInRange ==
    /\ overflow_count \in 0..max_overflow
    /\ metrics.overflow_connections \in 0..max_overflow

\* the counter is at its limit while an overflow return is about to decrement it
C2_Witness ==
    /\ overflow_count = max_overflow
    /\ \E t \in Threads : th[t].pc = "full"

\* C3: a connection is in the idle queue at most once, is held by at most one
\* caller, and is never both queued and held.
C3_ExclusiveOwnership ==
    /\ \A i, j \in 1..Len(pool) : i # j => pool[i] # pool[j]
    /\ \A t, u \in Held : t # u => th[t].connection # th[u].connection
    /\ \A t \in Held : ~InPool(th[t].connection)

\* two callers are inside their units of work at once, after a connection has
\* already been through the queue again
C3_Witness ==
    /\ \E t, u \in Threads : t # u /\ th[t].pc = "work" /\ th[u].pc = "work"
    /\ metrics.total_checkins > 0

\* C4: once a scope has exited, its connection is back in the idle queue or
\* closed: no open connection exists outside the queue and outside a scope.
C4_NoLeak ==
    \A c \in ConnIds :
        connStatus[c] = "open" => InPool(c) \/ \E t \in Held : th[t].connection = c

\* C5: when the unit of work raises, the scope ends with the transaction
\* rolled back, the connection back in the pool (or closed as overflow),
\* total_errors increased by exactly 1, the circuit untouched by this scope
\* and the unit of work's exception propagating.
C5_WorkErrorContract ==
    [][\A t \in Threads :
         /\ (th[t].pc = "work" /\ th'[t].raised = "work_error")
                => UNCHANGED circuitVars
         /\ (ExitStep(t) /\ th[t].raised = "work_error")
                => /\ th[t].rolledback
                   /\ th[t].exc = "work_error"
                   /\ th[t].errs = 1
                   /\ metrics'.total_errors = metrics.total_errors
                   /\ UNCHANGED circuitVars
                   /\ \/ \E i \in 1..Len(pool') : pool'[i] = th[t].connection
                      \/ connStatus'[th[t].connection] = "closed"]_vars

\* C6: a recorded failure leaves a CLOSED circuit CLOSED while the counter is
\* below the threshold, opens it and stamps circuit_opened_at when the counter
\* reaches the threshold, and leaves an OPEN circuit OPEN without re-stamping.
C6_FailureStep ==
    circuit_failures' = circuit_failures + 1 =>
        /\ (circuit_state = CLOSED /\ circuit_failures' < circuit_failure_threshold)
              => circuit_state' = CLOSED /\ circuit_opened_at' = NoTime
        /\ (circuit_state = CLOSED /\ circuit_failures' >= circuit_failure_threshold)
              => circuit_state' = OPEN /\ circuit_opened_at' = now
        /\ circuit_state = OPEN
              => circuit_state' = OPEN /\ circuit_opened_at' = circuit_opened_at

C6_OpensAtThreshold ==
    /\ [](circuit_state = CLOSED => circuit_failures < circuit_failure_threshold)
    /\ [][C6_FailureStep]_vars

\* a failure was recorded while the circuit was already OPEN
C6_Witness ==
    /\ circuit_state = OPEN
    /\ circuit_failures > circuit_failure_threshold
    /\ circuit_opened_at < now

\* C7: a call that starts while the circuit is OPEN and circuit_timeout has not
\* been exceeded is rejected: no scope is entered, no connection attempt is
\* made, and queue, overflow counter, circuit and metrics are unchanged.
C7_RejectionChangesNothing ==
    [][(CallStarts /\ circuit_state = OPEN
            /\ now - circuit_opened_at <= circuit_timeout)
         => /\ th' = th
            /\ UNCHANGED <<pool, overflow_count, overflow_lock, connStatus, nextId, overflow_created,
                           connection_timestamps, metrics, circuitVars>>]_vars

\* every call ever admitted failed to get a connection, and one more call was
\* made and rejected while the circuit was OPEN
C7_Witness ==
    /\ AllIdle
    /\ circuit_state = OPEN
    /\ now - circuit_opened_at <= circuit_timeout
    /\ metrics.total_checkouts = 0
    /\ ops = metrics.total_checkins + 1

\* C8: a call that starts while the circuit is OPEN with circuit_timeout
\* exceeded moves it to HALF_OPEN and is admitted; a commit made while the
\* circuit is HALF_OPEN moves it to CLOSED with the failure counter at 0 and
\* circuit_opened_at cleared.
C8_HalfOpenThenClosed ==
    [][/\ (CallStarts /\ circuit_state = OPEN
               /\ now - circuit_opened_at > circuit_timeout)
            => /\ circuit_state' = HALF_OPEN
               /\ \E t \in Threads : th[t].pc = "idle" /\ th'[t].pc = "get"
       /\ \A t \in Threads :
            (CommitStep(t) /\ circuit_state = HALF_OPEN)
               => /\ circuit_state' = CLOSED
                  /\ circuit_failures' = 0
                  /\ circuit_opened_at' = NoTime]_vars

\* the circuit had opened, and the trial scope has just committed and closed it
C8_Witness ==
    /\ circuit_state = CLOSED
    /\ circuit_failures = 0
    /\ metrics.total_errors >= 2 * circuit_failure_threshold
    /\ metrics.total_checkouts = 1
    /\ \E t \in Threads : th[t].pc = "release" /\ th[t].raised = "none"

\* C9: the circuit becomes CLOSED only from HALF_OPEN, by the _reset_circuit of
\* a committing scope, and leaves OPEN only for HALF_OPEN, by a call that
\* starts after circuit_timeout has been exceeded.
C9_MonotonicCycle ==
    [][/\ (circuit_state # CLOSED /\ circuit_state' = CLOSED)
            => /\ circuit_state = HALF_OPEN
               /\ \E t \in Threads : CommitStep(t)
       /\ (circuit_state = OPEN /\ circuit_state' # OPEN)
            => /\ circuit_state' = HALF_OPEN
               /\ CallStarts
               /\ now - circuit_opened_at > circuit_timeout]_vars

\* C10: a caller is never handed the connection it took from the idle queue
\* when that connection was stale or dead at the time it was taken.
C10_NoUnusableHandedOut ==
    \A t \in Threads : th[t].pc = "work" => ~th[t].unusable

\* the scopes that are inside their unit of work
InWork == {t \in Threads : th[t].pc = "work"}
\* those of them whose connection was made for them by the overflow branch
ServedByOverflow == {t \in InWork : th[t].path = "overflow"}
\* those that took theirs from the idle queue: directly, as the replacement
\* of a recycled one, or at the end of the bounded wait
ServedFromQueue == {t \in InWork : th[t].path \in {"queue", "recycle", "wait"}}

\* C11: while no error has been counted, whenever pool_size + k scopes
\* (1 <= k <= max_overflow) are inside their unit of work, pool_size of them
\* were served from the idle queue, k by overflow creation, and the
\* overflow_connections gauge is k; once all have returned the gauge is 0 and
\* the idle queue holds pool_size connections.
C11_OverflowAccounting ==
    metrics.total_errors = 0 =>
        /\ \A k \in 1..max_overflow :
              Cardinality(InWork) = pool_size + k =>
                  /\ Cardinality(ServedFromQueue) = pool_size
                  /\ Cardinality(ServedByOverflow) = k
                  /\ metrics.overflow_connections = k
        /\ (AllIdle /\ metrics.total_checkouts > pool_size) =>
              /\ metrics.overflow_connections = 0
              /\ Len(pool) = pool_size

\* the step taken is thread t closing its connection on a full-queue return
FullQueueClose(t) == th[t].pc = "full" /\ th'[t].pc = "idle"

\* C12: a connection made by the overflow branch is never in the idle queue,
\* and the connection closed on a full-queue return was made by the overflow
\* branch.
C12_OverflowNeverPooled ==
    /\ [](\A c \in overflow_created : ~InPool(c))
    /\ [][\A t \in Threads :
             FullQueueClose(t) => th[t].connection \in overflow_created]_vars

\* the step taken ends the bounded wait of thread t
WaitEnds(t) == th[t].pc = "wait" /\ th'[t].pc # "wait"

\* C13: a checkout that found the queue empty and the overflow counter at
\* max_overflow creates no connection; its wait ends with the connection at
\* the head of the idle queue if there is one and with the exhaustion error
\* (counted in total_errors) otherwise; and the bounded wait is the only
\* place it blocked: it did not also block on the overflow lock.
C13_BoundedWait ==
    [][\A t \in Threads :
         WaitEnds(t) =>
            /\ nextId' = nextId
            /\ metrics'.total_connections_created = metrics.total_connections_created
            /\ pool # <<>> => /\ th'[t].pc = "work"
                              /\ th'[t].connection = Head(pool)
            /\ pool = <<>> => /\ th'[t].pc = "idle"
                              /\ metrics'.total_errors > metrics.total_errors
                              /\ ~th[t].lockwait]_vars

\* C14: under fair scheduling every get_connection() call that has started
\* comes to an end, by returning its connection or by raising: no thread stays
\* forever in the bounded wait, at the overflow lock or anywhere else.  The
\* clients make finitely many calls, so this is: from some point on no call
\* is in progress.
C14_EveryCallEnds == <>[]AllIdle

\* one caller is in the bounded wait, holding the overflow lock, while another
\* is blocked on that lock
C14_Witness ==
    \E t, u \in Threads :
        /\ th[t].pc = "wait"
        /\ overflow_lock = t
        /\ th[u].pc = "overflow"
        /\ th[u].lockwait

\* every connection object made so far is open and within its pool_recycle age
NoneStaleOrDead ==
    \A c \in ConnIds :
        connStatus[c] # "none" => IsOpen(c) /\ ~IsConnectionStale(c)

\* C15: while one thread makes its checkouts one after the other and no
\* connection is stale or dead, no connection is created:
\* total_connections_created stays at pool_size and the connection checked
\* out is one of the pool_size original ones.
C15_SequentialReuse ==
    (Cardinality(clients) = 1 /\ NoneStaleOrDead) =>
        /\ metrics.total_connections_created = pool_size
        /\ \A t \in Held : th[t].connection \in 1..pool_size

\* C16: total_checkins never exceeds total_checkouts, the active_connections
\* gauge is their difference and is never negative, and when no scope is in
\* progress the two counters are equal and the gauge is 0.
C16_CheckoutsBalance ==
    /\ metrics.total_checkins <= metrics.total_checkouts
    /\ metrics.active_connections = metrics.total_checkouts - metrics.total_checkins
    /\ metrics.active_connections >= 0
    /\ AllIdle => /\ metrics.total_checkouts = metrics.total_checkins
                  /\ metrics.active_connections = 0

\* C17: _create_connection_with_retry makes at most max_retry_attempts
\* attempts and returns at the first that succeeds; a failed attempt that is
\* not the last changes neither total_errors nor the circuit; when the last
\* one fails total_errors grows by exactly 1, exactly one circuit failure is
\* recorded and the error of that last attempt is raised.
C17_RetryContract ==
    /\ [](\A t \in Threads :
            th[t].pc = "create" => th[t].attempt + 1 <= max_retry_attempts)
    /\ [][\A t \in Threads :
             th[t].pc = "create" =>
                /\ th'[t].pc \in {"create", "work", "fail"}
                /\ (th'[t].pc = "create" /\ th'[t] # th[t]) =>
                       /\ th'[t].attempt = th[t].attempt + 1
                       /\ metrics' = metrics
                       /\ UNCHANGED circuitVars
                /\ th'[t].pc = "work" =>
                       /\ th'[t].connection = nextId
                       /\ connStatus'[nextId] = "open"
                       /\ metrics'.total_retries = metrics.total_retries + th[t].attempt
                       /\ metrics'.total_errors = metrics.total_errors
                       /\ UNCHANGED circuitVars
                /\ th'[t].pc = "fail" =>
                       /\ th[t].attempt + 1 = max_retry_attempts
                       /\ th'[t].attempt = th[t].attempt
                       /\ th'[t].exc = "create_error"
                       /\ metrics'.total_errors = metrics.total_errors + 1
                       /\ circuit_failures' = circuit_failures + 1]_vars

\* every attempt of a creation, retries included, has failed: one error and
\* one circuit failure are on record
C17_Witness ==
    \E t \in Threads :
        /\ th[t].pc = "fail"
        /\ th[t].attempt >= 1
        /\ th[t].attempt + 1 = max_retry_attempts
        /\ metrics.total_errors = 1
        /\ circuit_failures = 1

\* C18: when a scope that obtained a connection ends, the transaction of its
\* unit of work has been ended in exactly one way: by the commit if the unit
\* of work completed (and then by no rollback of the error handler), by a
\* rollback if it raised: the handler's, or the one _return_connection makes
\* before it queues or closes the connection.  A connection whose socket is
\* gone has no transaction left; the rollback that _return_connection makes
\* after a commit finds none and is not counted.
C18_CommitOrRollback ==
    [][\A t \in Threads :
         ExitStep(t) =>
            LET c == th[t].connection
                released == /\ IsOpen(c)
                            /\ \/ th[t].pc = "full"
                               \/ \E i \in 1..Len(pool') : pool'[i] = c
            IN  /\ th[t].raised = "none" => ~th[t].rolledback
                /\ th[t].raised # "none" =>
                       th[t].rolledback \/ released \/ ~IsOpen(c)]_vars

C20_OpenedAtIffNotClosed ==
    /\ circuit_opened_at # NoTime <=> circuit_state \in {OPEN, HALF_OPEN}
    /\ circuit_state = CLOSED => circuit_opened_at = NoTime

\* the trial call of a HALF_OPEN circuit is inside its unit of work
C20_Witness ==
    /\ circuit_state = HALF_OPEN
    /\ circuit_opened_at # NoTime
    /\ \E t \in Threads : th[t].pc = "work"

\* C21: the failure count counts consecutive creation failures: a checkout
\* that commits successfully leaves the failure count at 0, so that the
\* circuit opens only after circuit_failure_threshold failures in a row.
C21_CommitResetsFailures ==
    [][\A t \in Threads : CommitStep(t) => circuit_failures' = 0]_vars

\* the calls admitted by _check_circuit whose outcome is not yet known
Unresolved == {t \in Threads : th[t].pc # "idle"}

\* C22: while the circuit is HALF_OPEN and the trial call is still under
\* way, no second get_connection() call is admitted.
C22_SingleTrial ==
    [][(CallStarts /\ circuit_state = HALF_OPEN /\ Unresolved # {})
         => th' = th]_vars

\* the step taken is _return_connection raising out of the finally clause
ReleaseRaises(t) ==
    /\ th[t].pc = "release" /\ th'[t].pc = "idle"
    /\ metrics'.total_errors = metrics.total_errors + 1

\* what the caller of get_connection() sees when the call ends in this step:
\* an exception raised in the finally clause replaces the one in flight
Observed(t) == IF ReleaseRaises(t) THEN "release_error" ELSE th[t].exc

\* C23: a call that held a connection ends with the outcome of its unit of
\* work ("none" after a commit, otherwise the exception of the except
\* clause), whether or not returning the connection failed.
C23_ReleaseFailureNotMasking ==
    [][\A t \in Threads : ExitStep(t) => Observed(t) = th[t].exc]_vars

\* the step taken ends a ConnectionPool(...) construction started by thread t
ConstructionEnds(t) == th[t].pc = "init" /\ th'[t].pc = "idle"

C25_HealthCheck ==
    [][\A t \in Threads :
         /\ (HealthCheckSucceeds(t) \/ HealthCheckFails(t) \/ HealthCheckReports(t))
              => /\ pool' = pool /\ overflow_count' = overflow_count
                 /\ circuit_state' = circuit_state
                 /\ circuit_failures' = circuit_failures
         /\ HealthCheckSucceeds(t)
              => /\ metrics'.health_check_failures = 0
                 /\ th'[t].report.status = "healthy"
         /\ HealthCheckFails(t)
              => metrics'.health_check_failures = metrics.health_check_failures + 1
         /\ HealthCheckReports(t)
              => /\ th'[t].report.status = "unhealthy"
                 /\ th'[t].report.failures = th[t].counted]_vars

\* C28: get_pool() called while no pool is initialised raises RuntimeError.
C28_GetPoolRaises ==
    [][\A t \in Threads :
         (GetPool(t) /\ global_pool = None) => th'[t].raised = "RuntimeError"]_vars

\* the delays slept before attempt number n (counted from 0) of one
\* _create_connection_with_retry call
ExpectedSleeps(n) == [i \in 1..n |-> base_delay * 2^(i - 1)]

\* C30: the sleep after failed attempt i (from 0) is base_delay * 2^i and
\* every failed attempt but the last is followed by one: attempt i starts (and
\* may succeed) after i sleeps, and a call that exhausts its n attempts has
\* slept n - 1 times.
C30_BackoffSleeps ==
    \A t \in Threads :
      /\ th[t].pc \in {"init", "create"}
           => th[t].sleeps = ExpectedSleeps(th[t].attempt)
      /\ th[t].exc = "create_error"
           => th[t].sleeps = ExpectedSleeps(max_retry_attempts - 1)

\* a creation exhausted three attempts or more, having slept in between
C30_Witness ==
    \E t \in Threads :
      /\ th[t].exc = "create_error"
      /\ max_retry_attempts >= 3
      /\ Len(th[t].sleeps) = max_retry_attempts - 1

RECURSIVE SeqSum(_)
SeqSum(q) == IF q = <<>> THEN 0 ELSE Head(q) + SeqSum(Tail(q))

RECURSIVE SeqMax(_)
SeqMax(q) == IF q = <<>> THEN 0 ELSE Max(Head(q), SeqMax(Tail(q)))

RECURSIVE Concat(_)
Concat(S) ==
    IF S = {} THEN <<>>
    ELSE LET t == CHOOSE u \in S : TRUE IN th[t].recorded \o Concat(S \ {t})

\* the latencies of all acquisitions recorded so far, by any thread
Latencies == Concat(Threads)

\* C27: after K acquisitions avg_checkout_time_ms is the arithmetic mean of
\* their K latencies and max_checkout_time_ms is their maximum, whichever
\* threads made them and in whatever order they were recorded.
C27_MeanAndMax ==
    /\ metrics.total_checkouts = Len(Latencies)
    /\ metrics.avg_checkout_time_ms[1] * Len(Latencies)
         = SeqSum(Latencies) * metrics.avg_checkout_time_ms[2]
    /\ metrics.max_checkout_time_ms = SeqMax(Latencies)

\* three acquisitions by two threads with three different latencies, the
\* largest of them recorded last by neither thread
C27_Witness ==
    /\ Len(Latencies) >= 3
    /\ \A t \in clients : th[t].recorded # <<>>
    /\ \E i, j, k \in 1..Len(Latencies) :
         Latencies[i] < Latencies[j] /\ Latencies[j] < Latencies[k]
    /\ metrics.max_checkout_time_ms > th["t1"].recorded[Len(th["t1"].recorded)]
    /\ metrics.max_checkout_time_ms > th["t2"].recorded[Len(th["t2"].recorded)]

\* C29: _check_circuit in OPEN moves to HALF_OPEN and admits the call exactly
\* when more than circuit_timeout has passed since the circuit opened, and
\* otherwise raises an exception whose retry-after value is the number
\* circuit_timeout - elapsed, between 0 and circuit_timeout; in CLOSED and in
\* HALF_OPEN it admits the call and changes nothing of the circuit.
C29_CheckCircuit ==
    [][\A t \in Threads :
         /\ CheckCircuitAdmits(t) =>
              IF circuit_state = OPEN
              THEN Elapsed > circuit_timeout /\ circuit_state' = HALF_OPEN
              ELSE UNCHANGED circuitVars
         /\ CheckCircuitRejects(t) =>
              /\ circuit_state = OPEN /\ Elapsed <= circuit_timeout
              /\ UNCHANGED circuitVars
              /\ LET retry_after == RaisedByCheckCircuit.extras.retry_after IN
                 /\ retry_after.type = "int"
                 /\ retry_after.value = circuit_timeout - Elapsed
                 /\ retry_after.value \in 0..circuit_timeout]_vars

\* C33: in every reachable state the circuit is CLOSED exactly when
\* circuit_failures is below circuit_failure_threshold
C33_ClosedIffBelowThreshold ==
    (circuit_state = CLOSED) <=> (circuit_failures < circuit_failure_threshold)

\* a creation has just failed for good, one failure short of the threshold
C33_Witness ==
    /\ circuit_state = CLOSED
    /\ circuit_failures > 0
    /\ circuit_failures + 1 = circuit_failure_threshold
    /\ \E t \in clients : th[t].pc = "fail"

\* C34: while the circuit is HALF_OPEN a single creation failure moves it back
\* to OPEN and stamps circuit_opened_at with the current time, and OPEN admits
\* the next trial only once more than circuit_timeout has elapsed since that stamp
C34_TrialFailureReopens ==
    [][/\ (circuit_state = HALF_OPEN /\ circuit_failures' = circuit_failures + 1)
            => (circuit_state' = OPEN /\ circuit_opened_at' = now)
       /\ (circuit_state = OPEN /\ circuit_state' = HALF_OPEN)
            => now - circuit_opened_at > circuit_timeout]_vars

\* a lone client's trial has failed after the clock moved: the circuit is OPEN
\* again, past the threshold, under a fresh stamp
C34_Witness ==
    /\ Cardinality(clients) = 1
    /\ circuit_state = OPEN
    /\ circuit_failures > circuit_failure_threshold
    /\ circuit_opened_at = now
    /\ now > 0

\* C35: when the creation of an overflow connection fails after its retries,
\* the checkout gives its overflow slot back: the creating thread has held
\* _overflow_lock since it incremented _overflow_count, so the value from before
\* the checkout is the current one less 1, and the failure leaves _overflow_count
\* and the overflow_connections gauge at that value
C35_FailedOverflowRestored ==
    [][\A t \in Threads :
          (th[t].path = "overflow" /\ th[t].pc = "create" /\ th'[t].pc = "fail")
              => /\ overflow_count' = overflow_count - 1
                 /\ metrics'.overflow_connections = overflow_count - 1]_vars

\* C38: under any interleaving no creation attempt made for a get_connection()
\* checkout, first attempt or retry, starts while the circuit is OPEN, also when
\* the checkout passed _check_circuit before another thread's failure opened it
C38_NoAttemptWhileOpen ==
    [][\A t \in Threads :
          (/\ th'[t].pc = "create"
           /\ th[t].pc # "create" \/ th'[t].attempt # th[t].attempt)
              => circuit_state # OPEN]_vars

\* C40: _overflow_lock is never held across a blocking operation: a thread that
\* is creating a connection (attempts, retries, back-off sleeps) or is in the
\* bounded wait on the idle queue does not hold _overflow_lock
C40_NoBlockingUnderLock ==
    \A t \in Threads :
        th[t].pc \in {"create", "wait"} => overflow_lock # t

\* C39: whenever no checkout is in progress, no error has been counted and no
\* connection has been lost (checkouts, recycling replacements and overflow
\* returns are all that changed the pool), the
\* idle_connections gauge equals the length of the idle queue, and
\* total_connections_created - total_connections_closed equals the number of
\* open connections of the pool
C39_GaugesMatchPool ==
    (/\ AllIdle
     /\ metrics.total_errors = 0
     /\ \A c \in ConnIds : connStatus[c] # "lost")
        => /\ metrics.idle_connections = Len(pool)
           /\ metrics.total_connections_created - metrics.total_connections_closed
                = Cardinality({c \in ConnIds : IsOpen(c)})

\* C37: once close_all_connections() has returned (close_connection_pool has
\* set _pool to None) and every checkout outstanding at that moment has
\* returned, no connection of the pool is open, also when no call has counted
\* an error: the idle queue is empty and the returns have retained or created none
C37_NothingOpenAfterClose ==
    (global_pool = None /\ AllIdle /\ metrics.total_errors = 0)
        => /\ pool = <<>>
           /\ \A c \in ConnIds : ~IsOpen(c)

\* C36: a failed replacement during recycling costs the pool no capacity for
\* good: where nothing else fails, whenever all checkouts have returned and
\* the idle queue is back at pool_size connections the overflow counter is 0,
\* so that pool_size + max_overflow checkouts can be outstanding again
C36_CapacityRecovered ==
    (AllIdle /\ Len(pool) = pool_size) => overflow_count = 0

\* the steps in which something other than connection creation fails
FailedProbe(t) ==
    /\ th[t].pc = "get" /\ th'[t].pc = "create"
    /\ pool # <<>> /\ ~IsConnectionStale(Head(pool))
FailedWork(t) == th[t].pc = "work" /\ th'[t].raised = "work_error"
FailedCommit(t) == th[t].pc = "work" /\ th'[t].raised = "commit_error"
ExhaustionTimeout(t) == th[t].pc = "wait" /\ th'[t].pc = "idle"
FailedHealthCheck(t) == th[t].pc = "idle" /\ th'[t].pc = "unhealthy"

\* C31: circuit_failures grows only in the step in which
\* _create_connection_with_retry has used up its attempts; a failed liveness
\* probe, a failing unit of work, a failed commit, a pool-exhaustion timeout
\* and a failed health_check leave circuit_failures and circuit_state as they were
C31_OnlyCreationCounts ==
    [][/\ circuit_failures' > circuit_failures
            => \E t \in Threads :
                  th[t].pc = "create" /\ LastAttempt(t) /\ th'[t].pc = "fail"
       /\ \A t \in Threads :
            (\/ FailedProbe(t) \/ FailedWork(t) \/ FailedCommit(t)
             \/ ExhaustionTimeout(t) \/ FailedHealthCheck(t))
                => UNCHANGED <<circuit_failures, circuit_state>>]_vars

\* a health check has just failed on a pool whose circuit one exhausted
\* creation has opened: the counter still shows that one failure
C31_Witness ==
    /\ circuit_failures = 1
    /\ circuit_state = OPEN
    /\ metrics.health_check_failures = 1
    /\ \E t \in Threads : th[t].pc = "unhealthy"

\* the locks a thread holds, the lock it is about to acquire, and whether
\* it has to wait for it
LocksHeld(t) == {l \in {OverflowLock, MetricsLock, CircuitBreakerLock} : LockHolder(l) = t}
Acquiring(t, l) == lk[t].todo # <<>> /\ Head(lk[t].todo) = Acquire(l)
Blocked(t) ==
    \E l \in {OverflowLock, MetricsLock, CircuitBreakerLock} :
        Acquiring(t, l) /\ LockHolder(l) # NoThread
WaitsFor(t) ==
    CHOOSE u \in Threads :
        \E l \in {OverflowLock, MetricsLock, CircuitBreakerLock} :
            Acquiring(t, l) /\ LockHolder(l) = u

\* C32: the locks are acquired in one order: _overflow_lock only by a thread
\* that holds no lock, _metrics_lock and _circuit_breaker_lock by a thread
\* that holds at most _overflow_lock, so the latter two are never held
\* together; and no threads are deadlocked: from every thread that waits for
\* a lock, the chain of lock holders leads to a thread that is not waiting
C32_LockOrder ==
    \A t \in Threads :
        /\ Acquiring(t, OverflowLock) => LocksHeld(t) = {}
        /\ Acquiring(t, MetricsLock) => LocksHeld(t) \subseteq {OverflowLock}
        /\ Acquiring(t, CircuitBreakerLock) => LocksHeld(t) \subseteq {OverflowLock}
        /\ ~(MetricsLock \in LocksHeld(t) /\ CircuitBreakerLock \in LocksHeld(t))
        /\ Blocked(t) =>
             \/ ~Blocked(WaitsFor(t))
             \/ ~Blocked(WaitsFor(WaitsFor(t)))
             \/ ~Blocked(WaitsFor(WaitsFor(WaitsFor(t))))

\* a thread holds _overflow_lock and _metrics_lock at once while a second
\* thread waits for _overflow_lock and a third for _metrics_lock
C32_Witness ==
    \E t, u, v \in Threads :
        /\ LocksHeld(t) = {OverflowLock, MetricsLock}
        /\ Acquiring(u, OverflowLock)
        /\ Acquiring(v, MetricsLock)

====
